---------------------------- MODULE Spec2Model ----------------------------
(***************************************************************************)
(* A model of draco's delay-space analysis (draco/analysis/delay.py): the  *)
(* window generator, the Fourier design matrices, the null-delay filter,   *)
(* the Gibbs delay-spectrum sampler, the Stokes I extraction and the two   *)
(* pipeline tasks DelayFilter and DelaySpectrumEstimator; and of the       *)
(* m-mode packing of ch_pipeline/mapmaker.py.                              *)
(*                                                                         *)
(* The source is Python 2 (print statement at delay.py:490), so `/` on two *)
(* ints is floor division.  Real numbers are kept exact: a window weight   *)
(* is an integer count of 1e-7 units, a matrix is a matrix of integer      *)
(* numerators over a stated common denominator.  Draws of a random number  *)
(* generator are nondeterministic choices from small sets.                 *)
(*                                                                         *)
(* Each component has its own specification (SpecWindow, SpecFourier, ...);*)
(* a specification leaves the variables of the other components idle.      *)
(***************************************************************************)
EXTENDS Integers, Sequences, FiniteSets, TLC

VARIABLES
    \* ---- window_generalised (delay.py:230-258)
    win_pc,        \* "call" | "returned" | "raised"
    win_window,    \* the `window` argument (a family name)
    win_x,         \* the `x` argument: locations, in quarters (q stands for q/4)
    win_result,    \* what the call produced: weights, or the exception raised
    \* ---- fourier_matrix_r2c / fourier_matrix_c2r (delay.py:261-329)
    fm_pc,         \* "time" | "freq" | "back"
    fm_N,          \* length of the real series
    fm_series,     \* the real series
    fm_packed,     \* r2c(N) . series: channels packed (re, im, re, im, ...)
    fm_back,       \* N * (c2r(N) . packed)
    \* ---- null_delay_filter (delay.py:452-498)
    nf_pc,         \* "call" | "returned" | "applied1" | "applied2" | "raised"
    nf_freq,       \* the `freq` argument: channel centres
    nf_max_delay,  \* the `max_delay` argument: "zero" | "wide" (see KeptModes)
    nf_mask,       \* the `mask` argument: one weight per channel
    nf_window,     \* the `window` argument
    nf_proj,       \* the returned matrix [num, den], or the exception raised
    nf_data,       \* a data vector the caller filters
    nf_once,       \* proj . data          (numerators over nf_proj.den)
    nf_twice,      \* proj . (proj . data) (numerators over nf_proj.den ^ 2)
    \* ---- delay_spectrum_gibbs (delay.py:332-449)
    gb_pc,         \* "signal" | "ps" | "returned" | "raised"
    gb_data,       \* the `data` argument: data[time][channel]
    gb_N,          \* the `N` argument: number of delay samples
    gb_niter,      \* the `niter` argument
    gb_initial_S,  \* the `initial_S` argument: one rational per delay sample
    gb_ii,         \* the loop variable `ii`: iterations completed
    gb_S_samp,     \* `S_samp`: the most recent spectrum
    gb_d_samp,     \* `d_samp`: the most recent signal draw, d[delay][time]
    gb_spec,       \* `spec`: the list of spectrum draws
    gb_exc,        \* the exception that ended the call, or None
    gb_given,      \* history: what each draw so far was conditioned on
    \* ---- stokes_I (delay.py:170-227)
    st_pc,         \* "loop" | "done"
    st_tel,        \* the `tel` argument (see Telescope)
    st_vis,        \* sstream.vis: one slab [channel][time] per product
    st_weight,     \* sstream.weight: one slab per product
    st_ii,         \* products already visited by the loop (`ii`, 0-based)
    st_vis_I,      \* `vis_I`: one slab per unique baseline
    st_vis_weight, \* `vis_weight`: one slab per unique baseline
    \* ---- DelayFilter.process (delay.py:13-55), one process per worker
    df_update_weight, \* self.update_weight
    df_delay_cut,  \* self.delay_cut: "zero" | "wide"
    df_freq,       \* ss.freq['centre']
    df_vis,        \* ss.vis: df_vis[prod][channel], a rational [n, d]
    df_weight,     \* ss.weight: df_weight[prod][channel]
    df_vis0,       \* the visibilities `process` was called with
    df_dist,       \* the axis ss is distributed over: "freq" | "prod"
    df_wpc,        \* per worker: "start" | "redistribute" | "loop" | "done" | "raised"
    df_lbi,        \* per worker: local products already visited
    df_exc,        \* per worker: the exception that ended it, or None
    df_ncoll,      \* per worker: redistributions it has entered
    \* ---- DelaySpectrumEstimator (delay.py:58-167), one process per worker
    es_cfg,        \* the configuration: nsamp, freq_zero, freq_spacing, nfreq,
                   \* skip_nyquist (<<>> for a property that is not set)
    self_freq_zero,    \* self.freq_zero
    self_freq_spacing, \* self.freq_spacing
    self_nfreq,    \* self.nfreq
    es_pc,         \* "idle" (no call in progress) | "setup" (in process,
                   \* before the loop) | "running" (the loops)
    es_calls,      \* invocations of process so far
    es_freq,       \* ss.freq['centre'] of the current invocation
    es_vis_I,      \* vis_I: one slab [channel][time] per baseline
    es_vis_weight, \* vis_weight: one slab per baseline
    es_channel_ind,\* channel_ind
    es_ndelay,     \* ndelay
    es_spectrum,   \* delay_spec.spectrum: one row per baseline (global order)
    es_wpc,        \* per worker: "setup" | "redistribute" | "loop" | "done"
                   \* | "raised"
    es_ncoll,      \* per worker: redistributions entered in the current call
    es_lbi,        \* per worker: local baselines already visited
    es_exc,        \* per worker: the exception that ended it, or None
    es_sampled,    \* baselines whose data the sampler was invoked on
    es_last_run,   \* <<>> or <<r>>, r the latest stored estimate: its row, the
                   \* baseline whose data was read, the spectrum the chain
                   \* started from, the number of draws and the indices of
                   \* the draws averaged
    es_initial_S,  \* initial_S: the array created at delay.py:144
    es_arg_writes, \* per array handed to the sampler (data, Ni, initial_S):
                   \* the lines of the sampler that wrote into it in place
    \* ---- the noise weights of delay_spectrum_gibbs (delay.py:388-394)
    nw_pc,         \* "start" | "done"
    nw_N,          \* N
    nw_fsel,       \* fsel, after the default has been filled in
    nw_Ni,         \* Ni: the weight of each selected channel
    nw_Ni_r,       \* Ni_r: real and imaginary weight, interleaved
    \* ---- _make_marray and _pack_marray (mapmaker.py:29-54)
    mm_pc,         \* "fft" | "pack" | "loop" | "done"
    mm_ts,         \* ts: the time stream of one frequency and product
    mm_mmodes,     \* mmodes: its Fourier modes
    mm_marray,     \* marray: per m, the positive-m and negative-m entry
    mm_mi          \* passes of the packing loop made so far

winVars == <<win_pc, win_window, win_x, win_result>>
fmVars  == <<fm_pc, fm_N, fm_series, fm_packed, fm_back>>
nfVars  == <<nf_pc, nf_freq, nf_max_delay, nf_mask, nf_window, nf_proj,
             nf_data, nf_once, nf_twice>>
gbVars  == <<gb_pc, gb_data, gb_N, gb_niter, gb_initial_S, gb_ii, gb_S_samp,
             gb_d_samp, gb_spec, gb_exc, gb_given>>
stVars  == <<st_pc, st_tel, st_vis, st_weight, st_ii, st_vis_I, st_vis_weight>>
dfVars  == <<df_update_weight, df_delay_cut, df_freq, df_vis, df_weight, df_vis0,
             df_dist, df_wpc, df_lbi, df_exc, df_ncoll>>
esVars  == <<es_cfg, self_freq_zero, self_freq_spacing, self_nfreq, es_pc,
             es_calls, es_freq, es_vis_I, es_vis_weight, es_channel_ind,
             es_ndelay, es_spectrum, es_wpc, es_lbi, es_exc, es_sampled,
             es_last_run, es_initial_S, es_arg_writes, es_ncoll>>
nwVars  == <<nw_pc, nw_N, nw_fsel, nw_Ni, nw_Ni_r>>
mmVars  == <<mm_pc, mm_ts, mm_mmodes, mm_marray, mm_mi>>
vars    == <<winVars, fmVars, nfVars, gbVars, stVars, dfVars, esVars, nwVars, mmVars>>

None == "None"

(***************************************************************************)
(* Generic helpers.                                                        *)
(***************************************************************************)
Range(f) == {f[i] : i \in DOMAIN f}

RECURSIVE SumSeq(_)
SumSeq(s) == IF s = <<>> THEN 0 ELSE Head(s) + SumSeq(Tail(s))

Abs(a) == IF a < 0 THEN -a ELSE a

\* All sequences over S of length lo..hi.
SeqsOf(S, lo, hi) == UNION {[1..n -> S] : n \in lo..hi}

(***************************************************************************)
(* window_generalised                                                      *)
(***************************************************************************)
\* Weights are counted in units of 1/WScale.
WScale == 10000000

\* a_table, in units of 1/WScale, entry k+1 is the coefficient of cos(2 pi k x).
a_table ==
    [nuttall          |-> <<3557680, -4873960, 1442320, -126040>>,
     blackman_nuttall |-> <<3635819, -4891775, 1365995, -106411>>,
     blackman_harris  |-> <<3587500, -4882900, 1412800, -116800>>]

\* cos(2 pi j / 4) for an integer j.
CosQuarter(j) == CASE j % 4 = 0 -> 1
                   [] j % 4 = 2 -> -1
                   [] OTHER     -> 0

\* a_table[window] with a fallback to 'nuttall' for an unknown family
\* (a dict.get with a default): the lookup no longer raises.
LookupFamilyDefaulting(table, window) ==
    IF window \in DOMAIN table
    THEN [kind |-> "ok", val |-> table[window]]
    ELSE [kind |-> "ok", val |-> table["nuttall"]]

\* a = a_table[window]: a dict subscription; a missing key raises KeyError.
LookupFamily(table, window) ==
    IF window \in DOMAIN table
    THEN [kind |-> "ok", val |-> table[window]]
    ELSE [kind |-> "KeyError", val |-> window]

\* w = (a[:, newaxis] * cos(2 pi arange(4)[:, newaxis] x[newaxis, :])).sum(axis=0)
\* at one location q/4, in units of 1/WScale.
WindowAt(a, q) == SumSeq([k \in 1..4 |-> a[k] * CosQuarter((k - 1) * q)])

\* The whole call: the exception raised, or the weights at every location.
window_generalised(x, window) ==
    LET a == LookupFamily(a_table, window)
    IN  IF a.kind # "ok"
        THEN [kind |-> a.kind, w |-> None]
        ELSE [kind |-> "ok", w |-> [i \in DOMAIN x |-> WindowAt(a.val, x[i])]]

\* ---- specification of the window generator ----
\* Family names a caller may pass: the three supported ones and others.
WindowNames == {"nuttall", "blackman_nuttall", "blackman_harris", "hann", "Nuttall"}
\* Locations, in quarters: 0, 1/4, 1/2, 3/4, 1.
Quarters == 0..4
MaxLocations == 3

IdleWindow ==
    /\ win_pc = "idle" /\ win_window = None /\ win_x = <<>> /\ win_result = None

WindowInit ==
    /\ win_pc = "call"
    /\ win_window \in WindowNames
    /\ win_x \in SeqsOf(Quarters, 1, MaxLocations)
    /\ win_result = None

WindowCall ==
    /\ win_pc = "call"
    /\ LET r == window_generalised(win_x, win_window)
       IN  /\ win_result' = r
           /\ win_pc' = IF r.kind = "ok" THEN "returned" ELSE "raised"
    /\ UNCHANGED <<win_window, win_x>>

(***************************************************************************)
(* fourier_matrix_r2c, fourier_matrix_c2r                                  *)
(***************************************************************************)
\* sin(2 pi j / 4) for an integer j.
SinQuarter(j) == CASE j % 4 = 1 -> 1
                   [] j % 4 = 3 -> -1
                   [] OTHER     -> 0

\* cos(2 pi t f / N) and sin(2 pi t f / N) where 4 t f is a multiple of N
\* (every t, f when N is 2 or 4).
CosTF(N, t, f) == CosQuarter((4 * t * f) \div N)
SinTF(N, t, f) == SinQuarter((4 * t * f) \div N)

\* fa = np.arange(N / 2 + 1): the default channel selection 0..N/2.
DefaultFsel(N) == [i \in 1..(N \div 2 + 1) |-> i - 1]

\* fourier_matrix_r2c(N, fsel): Fr[0::2] = cos, Fr[1::2] = -sin.
\* Row r (1-based) belongs to channel fsel[(r+1) div 2]; odd rows are the
\* real parts.  Column t (1-based) is time sample t-1.
fourier_matrix_r2c(N, fsel) ==
    [r \in 1..(2 * Len(fsel)) |->
        [t \in 1..N |->
            LET f == fsel[(r + 1) \div 2]
            IN  IF r % 2 = 1 THEN CosTF(N, t - 1, f) ELSE -SinTF(N, t - 1, f)]]

\* mul with the zero and Nyquist channels not singled out: 2/N everywhere.
C2RMulUniform(N, f) == 2

\* mul = np.where((fa == 0) | (fa == N / 2), 1.0, 2.0) / N, times N.
C2RMul(N, f) == IF f = 0 \/ f = N \div 2 THEN 1 ELSE 2

\* fourier_matrix_c2r(N, fsel), times N: Fr[:, 0::2] = cos * mul,
\* Fr[:, 1::2] = -sin * mul.
fourier_matrix_c2r(N, fsel) ==
    [t \in 1..N |->
        [c \in 1..(2 * Len(fsel)) |->
            LET f == fsel[(c + 1) \div 2]
            IN  IF c % 2 = 1 THEN CosTF(N, t - 1, f) * C2RMul(N, f)
                ELSE -SinTF(N, t - 1, f) * C2RMul(N, f)]]

\* np.dot of a matrix (sequence of rows) with a vector, and with a matrix.
MatVec(M, v) == [r \in DOMAIN M |-> SumSeq([k \in DOMAIN v |-> M[r][k] * v[k]])]
MatMul(A, B) ==
    [r \in DOMAIN A |->
        [c \in DOMAIN B[1] |-> SumSeq([k \in DOMAIN B |-> A[r][k] * B[k][c]])]]
Identity(n) == [r \in 1..n |-> [c \in 1..n |-> IF r = c THEN 1 ELSE 0]]
Scale(k, M) == [r \in DOMAIN M |-> [c \in DOMAIN M[r] |-> k * M[r][c]]]

\* ---- specification of the Fourier pair ----
\* Even lengths whose basis values are all in {-1, 0, 1}.
FourierSizes == {2, 4}
SeriesValues == {-1, 0, 1}

IdleFourier ==
    /\ fm_pc = "idle" /\ fm_N = 0 /\ fm_series = <<>>
    /\ fm_packed = <<>> /\ fm_back = <<>>

FourierInit ==
    /\ fm_pc = "time"
    /\ fm_N \in FourierSizes
    /\ fm_series \in [1..fm_N -> SeriesValues]
    /\ fm_packed = <<>>
    /\ fm_back = <<>>

\* packed = fourier_matrix_r2c(N) . series
FourierForward ==
    /\ fm_pc = "time"
    /\ fm_packed' = MatVec(fourier_matrix_r2c(fm_N, DefaultFsel(fm_N)), fm_series)
    /\ fm_pc' = "freq"
    /\ UNCHANGED <<fm_N, fm_series, fm_back>>

\* back = N * (fourier_matrix_c2r(N) . packed)
FourierBackward ==
    /\ fm_pc = "freq"
    /\ fm_back' = MatVec(fourier_matrix_c2r(fm_N, DefaultFsel(fm_N)), fm_packed)
    /\ fm_pc' = "back"
    /\ UNCHANGED <<fm_N, fm_series, fm_packed>>

(***************************************************************************)
(* null_delay_filter                                                       *)
(***************************************************************************)
RECURSIVE Gcd(_, _)
Gcd(a, b) == IF b = 0 THEN Abs(a) ELSE Gcd(b, a % b)

RECURSIVE GcdSeq(_)
GcdSeq(s) == IF s = <<>> THEN 0 ELSE Gcd(Head(s), GcdSeq(Tail(s)))

SeqMin(s) == CHOOSE m \in Range(s) : \A v \in Range(s) : m <= v
SeqMax(s) == CHOOSE m \in Range(s) : \A v \in Range(s) : v <= m

\* freq.ptp()
Ptp(freq) == SeqMax(freq) - SeqMin(freq)

\* x = (freq - freq.min()) / freq.ptp(), in quarters.  The axes of the model
\* are those whose normalised locations are multiples of 1/4.
NormalisedQuarters(freq) ==
    [i \in DOMAIN freq |-> (4 * (freq[i] - SeqMin(freq))) \div Ptp(freq)]

\* mask * w with w = window_generalised(x, window='nuttall'), in 1/WScale.
MaskTimesWindow(freq, mask) ==
    LET w == window_generalised(NormalisedQuarters(freq), "nuttall").w
    IN  [i \in DOMAIN freq |-> mask[i] * w[i]]

\* u, sig, vh = la.svd(F); nmodes = np.sum(sig > tol * sig.max());
\* p = u[:, :nmodes]; np.dot(p, p.T.conj()) as [num, den].
\* F = (mask * w)[:, newaxis] * exp(2j pi delay freq) is known exactly in two
\* regimes of max_delay:
\*   "zero": delay = linspace(-0, 0, num_delay) is all zeros, every column of
\*           F is mask * w, so F has one non-zero singular value with left
\*           vector mask * w / |mask * w| (none when mask * w = 0, where
\*           sig.max() = 0 and `sig > tol * sig.max()` is false throughout);
\*   "wide": the delays resolve every channel, the rows of F at the channels
\*           with mask * w # 0 are independent and all kept, so the modes
\*           span exactly those channels.
KeptModes(mw, max_delay) ==
    LET n == Len(mw)
        g == GcdSeq(mw)
        v == [i \in 1..n |-> IF g = 0 THEN 0 ELSE mw[i] \div g]
    IN  IF max_delay = "zero" /\ g # 0
        THEN [num |-> [i \in 1..n |-> [j \in 1..n |-> v[i] * v[j]]],
              den |-> SumSeq([i \in 1..n |-> v[i] * v[i]])]
        ELSE IF max_delay = "zero"
        THEN [num |-> [i \in 1..n |-> [j \in 1..n |-> 0]], den |-> 1]
        ELSE [num |-> [i \in 1..n |-> [j \in 1..n |->
                          IF i = j /\ mw[i] # 0 THEN 1 ELSE 0]],
              den |-> 1]

\* proj = np.identity(len(freq)) - np.dot(p, p.T.conj())
NullProjector(pp) ==
    [num |-> [i \in DOMAIN pp.num |-> [j \in DOMAIN pp.num |->
                 (IF i = j THEN pp.den ELSE 0) - pp.num[i][j]]],
     den |-> pp.den]

\* The re-windowing applied whatever the `window` flag is.
ApplyWindowAlways(proj, mw, window) ==
    LET g    == Gcd(GcdSeq(mw), WScale)
        wden == WScale \div g
    IN  [num |-> [i \in DOMAIN proj.num |-> [j \in DOMAIN proj.num |->
                     (mw[j] \div g) * proj.num[i][j]]],
         den |-> proj.den * wden]

\* if window: proj = (mask * w)[np.newaxis, :] * proj
\* (column j is multiplied by mask[j] * w[j]; mask * w is brought from units
\* of 1/WScale to lowest terms first).
ApplyWindow(proj, mw, window) ==
    IF window THEN ApplyWindowAlways(proj, mw, window) ELSE proj

\* The whole call.  A single-channel (or constant) axis has ptp() = 0: x is
\* 0/0 = nan, F is nan and la.svd (check_finite) raises ValueError.
null_delay_filter(freq, max_delay, mask, window) ==
    IF Ptp(freq) = 0
    THEN [kind |-> "ValueError", num |-> None, den |-> None]
    ELSE LET mw   == MaskTimesWindow(freq, mask)
             proj == ApplyWindow(NullProjector(KeptModes(mw, max_delay)),
                                 mw, window)
         IN  [kind |-> "ok", num |-> proj.num, den |-> proj.den]

\* ---- specification of the null-delay filter ----
\* Channel centres.  Normalised locations are quarters, and the channels
\* strictly inside the band share one window weight (locations 1/4 and 3/4)
\* or are the single centre channel, which keeps every product of two
\* matrix entries within TLC's integers.
FilterAxes == {<<0, 1, 3, 4>>, <<0, 1, 4>>, <<4, 3, 0>>, <<0, 2, 4>>,
               <<2, 3, 4>>, <<0, 4>>, <<3>>}
MaskValues == {0, 1}
DataValues == {-1, 0, 1}

IdleNull ==
    /\ nf_pc = "idle" /\ nf_freq = <<>> /\ nf_max_delay = None
    /\ nf_mask = <<>> /\ nf_window = FALSE /\ nf_proj = None
    /\ nf_data = <<>> /\ nf_once = <<>> /\ nf_twice = <<>>

NullInit ==
    /\ nf_pc = "call"
    /\ nf_freq \in FilterAxes
    /\ nf_max_delay \in {"zero", "wide"}
    /\ nf_mask \in [1..Len(nf_freq) -> MaskValues]
    /\ nf_window \in BOOLEAN
    /\ nf_data \in [1..Len(nf_freq) -> DataValues]
    /\ nf_proj = None
    /\ nf_once = <<>>
    /\ nf_twice = <<>>

\* NF = null_delay_filter(freq, max_delay, mask, window=...)
NullCall ==
    /\ nf_pc = "call"
    /\ LET r == null_delay_filter(nf_freq, nf_max_delay, nf_mask, nf_window)
       IN  /\ nf_proj' = r
           /\ nf_pc' = IF r.kind = "ok" THEN "returned" ELSE "raised"
    /\ UNCHANGED <<nf_freq, nf_max_delay, nf_mask, nf_window, nf_data,
                   nf_once, nf_twice>>

\* y = np.dot(NF, data)
NullApplyOnce ==
    /\ nf_pc = "returned"
    /\ nf_once' = MatVec(nf_proj.num, nf_data)
    /\ nf_pc' = "applied1"
    /\ UNCHANGED <<nf_freq, nf_max_delay, nf_mask, nf_window, nf_data,
                   nf_proj, nf_twice>>

\* z = np.dot(NF, y)
NullApplyTwice ==
    /\ nf_pc = "applied1"
    /\ nf_twice' = MatVec(nf_proj.num, nf_once)
    /\ nf_pc' = "applied2"
    /\ UNCHANGED <<nf_freq, nf_max_delay, nf_mask, nf_window, nf_data,
                   nf_proj, nf_once>>

(***************************************************************************)
(* delay_spectrum_gibbs                                                    *)
(*                                                                         *)
(* A real number of the sampler is a rational [n, d] with d > 0.           *)
(***************************************************************************)
IsPositive(q) == q.n > 0
IsFinitePositive(S) == \A i \in DOMAIN S : IsPositive(S[i])

\* S_hat = d.var(axis=1) for one delay bin (numpy's default ddof = 0):
\* mean(x^2) - mean(x)^2 = (T sum(x^2) - sum(x)^2) / T^2 over the T columns.
VarRow(row) ==
    LET T == Len(row)
    IN  [n |-> T * SumSeq([t \in 1..T |-> row[t] * row[t]])
                 - SumSeq(row) * SumSeq(row),
         d |-> T * T]

\* _draw_ps_sample(d) given the chi-squared draws chi2[i] > 0:
\* S_hat = d.var(axis=1); df = d.shape[1]; S_samp = S_hat * df / chi2.
draw_ps_sample(d, chi2) ==
    [i \in DOMAIN d |->
        LET S_hat == VarRow(d[i])
            df    == Len(d[i])
        IN  [n |-> S_hat.n * df, d |-> S_hat.d * chi2[i]]]

\* _draw_signal_sample(S): Si = 1.0 / S; Ci = diag(Si) + FTNiF;
\* y = FTNi.data + Si^0.5 * w1 + F.T.(Ni_r^0.5 * w2); la.solve(Ci, y, sym_pos).
\* With every S[i] > 0, Ci is positive definite and the standard normal w1
\* gives the solution full support: any real N x T matrix can be drawn, so
\* the draw is a free choice (`signals` is the set the model chooses from).
\* With some S[i] = 0, Si and y hold inf and la.solve (check_finite) raises
\* ValueError.
draw_signal_sample(S, signals) ==
    IF IsFinitePositive(S)
    THEN [kind |-> "ok", draws |-> signals]
    ELSE [kind |-> "ValueError", draws |-> {}]

\* ---- specification of the sampler ----
GibbsSizes    == {2}          \* N: even numbers of delay samples
MaxTime       == 2            \* data.shape[0]: up to this many time columns
MaxIter       == 3            \* niter: up to this many iterations
VisValues     == {0, 1}       \* values of the data
SignalValues  == {0, 1}       \* values of a signal draw
Chi2Values    == {1, 2}       \* values of a chi-squared draw (positive)
InitialValues == {1, 10}      \* values of the flat initial spectrum

IdleGibbs ==
    /\ gb_pc = "idle" /\ gb_data = <<>> /\ gb_N = 0 /\ gb_niter = 0
    /\ gb_initial_S = <<>> /\ gb_ii = 0 /\ gb_S_samp = <<>>
    /\ gb_d_samp = <<>> /\ gb_spec = <<>> /\ gb_exc = None /\ gb_given = <<>>

\* The state at the head of the loop: spec = [], S_samp = initial_S.
GibbsInit ==
    /\ gb_N \in GibbsSizes
    /\ \E T \in 1..MaxTime :
          gb_data \in [1..T -> [1..(gb_N \div 2 + 1) -> VisValues]]
    /\ gb_niter \in 1..MaxIter
    /\ \E v \in InitialValues : gb_initial_S = [i \in 1..gb_N |-> [n |-> v, d |-> 1]]
    /\ gb_S_samp = gb_initial_S
    /\ gb_spec = <<>>
    /\ gb_ii = 0
    /\ gb_d_samp = <<>>
    /\ gb_exc = None
    /\ gb_given = <<>>
    /\ gb_pc = "signal"

\* d_samp = _draw_signal_sample(S_samp), inside `for ii in range(niter)`.
GibbsSignalDraw ==
    /\ gb_pc = "signal"
    /\ gb_ii < gb_niter
    /\ LET r == draw_signal_sample(gb_S_samp,
                    [1..gb_N -> [1..Len(gb_data) -> SignalValues]])
       IN  IF r.kind = "ok"
           THEN /\ gb_d_samp' \in r.draws
                /\ gb_pc' = "ps"
                /\ gb_exc' = gb_exc
                /\ gb_given' = Append(gb_given, gb_S_samp)
           ELSE /\ gb_pc' = "raised"
                /\ gb_exc' = r.kind
                /\ UNCHANGED <<gb_d_samp, gb_given>>
    /\ UNCHANGED <<gb_data, gb_N, gb_niter, gb_initial_S, gb_ii, gb_S_samp, gb_spec>>

\* S_samp = _draw_ps_sample(d_samp); spec.append(S_samp)
GibbsPsDraw ==
    /\ gb_pc = "ps"
    /\ \E chi2 \in [1..gb_N -> Chi2Values] :
          /\ gb_S_samp' = draw_ps_sample(gb_d_samp, chi2)
          /\ gb_spec' = Append(gb_spec, gb_S_samp')
    /\ gb_given' = Append(gb_given, gb_d_samp)
    /\ gb_ii' = gb_ii + 1
    /\ gb_pc' = "signal"
    /\ UNCHANGED <<gb_data, gb_N, gb_niter, gb_initial_S, gb_d_samp, gb_exc>>

\* return spec, once range(niter) is exhausted.
GibbsReturn ==
    /\ gb_pc = "signal"
    /\ gb_ii >= gb_niter
    /\ gb_pc' = "returned"
    /\ UNCHANGED <<gb_data, gb_N, gb_niter, gb_initial_S, gb_ii, gb_S_samp,
                   gb_d_samp, gb_spec, gb_exc, gb_given>>

(***************************************************************************)
(* stokes_I                                                                *)
(*                                                                         *)
(* A telescope is a record                                                 *)
(*   baselines   : per product, its baseline vector (an integer stands for *)
(*                 the complex number u + 1j v; integers sort as these do),*)
(*   uniquepairs : per product, its feed pair <<fi, fj>>,                  *)
(*   beamclass   : per feed, its polarisation class,                       *)
(*   masked      : the feed pairs fi, fj with feedmap[fi, fj] = -1.        *)
(* A slab is an array [channel][time].                                     *)
(***************************************************************************)
ZeroSlab(nchan, ntime) == [c \in 1..nchan |-> [t \in 1..ntime |-> 0]]
AddSlab(a, b) == [c \in DOMAIN a |-> [t \in DOMAIN a[c] |-> a[c][t] + b[c][t]]]
IsZeroSlab(a) == \A c \in DOMAIN a : \A t \in DOMAIN a[c] : a[c][t] = 0

\* ubase of np.unique(...): the distinct baseline vectors in sorted order.
RECURSIVE SortedSeq(_)
SortedSeq(S) ==
    IF S = {} THEN <<>>
    ELSE LET m == CHOOSE x \in S : \A y \in S : x <= y
         IN  <<m>> \o SortedSeq(S \ {m})

Ubase(tel) == SortedSeq(Range(tel.baselines))

\* uinv of np.unique(..., return_inverse=True): per product, the index of
\* its baseline vector in ubase.
Uinv(tel) ==
    [ii \in DOMAIN tel.baselines |->
        CHOOSE ui \in DOMAIN Ubase(tel) : Ubase(tel)[ui] = tel.baselines[ii]]

\* ucount of np.unique(..., return_counts=True): products per unique baseline.
Ucount(tel) ==
    [ui \in DOMAIN Ubase(tel) |->
        Cardinality({ii \in DOMAIN tel.baselines : Uinv(tel)[ii] = ui})]

\* upi = tel.feedmap[fi, fj]: -1 for a pair that is not in the map.
Feedmap(tel, pair) == IF pair \in tel.masked THEN -1 ELSE 0

\* The test on upi left out: a pair missing from the feed map is summed too.
ProductIsSummedIgnoringFeedmap(tel, ii) ==
    LET fi == tel.uniquepairs[ii][1]
        fj == tel.uniquepairs[ii][2]
    IN  /\ ~(Ucount(tel)[Uinv(tel)[ii]] < 4)
        /\ tel.beamclass[fi] = tel.beamclass[fj]

\* Whether the loop body adds product ii to its baseline's rows:
\*   if ucount[ui] < 4: continue
\*   fi, fj = tel.uniquepairs[ii]; bi, bj = tel.beamclass[fi], tel.beamclass[fj]
\*   upi = tel.feedmap[fi, fj]
\*   if upi == -1: continue
\*   if bi == bj: (add)
ProductIsSummed(tel, ii) ==
    LET fi == tel.uniquepairs[ii][1]
        fj == tel.uniquepairs[ii][2]
    IN  /\ ~(Ucount(tel)[Uinv(tel)[ii]] < 4)
        /\ Feedmap(tel, <<fi, fj>>) # -1
        /\ tel.beamclass[fi] = tel.beamclass[fj]

\* One pass of `for ii, ui in enumerate(uinv)` over product ii:
\* vis_I[ui] += sstream.vis[:, ii]; vis_weight[ui] += sstream.weight[:, ii].
StokesStep(acc, tel, vis, weight, ii) ==
    LET ui == Uinv(tel)[ii]
    IN  IF ProductIsSummed(tel, ii)
        THEN [vis_I      |-> [acc.vis_I EXCEPT ![ui] = AddSlab(@, vis[ii])],
              vis_weight |-> [acc.vis_weight EXCEPT ![ui] = AddSlab(@, weight[ii])]]
        ELSE acc

\* vis_I = np.zeros(vis_shape), vis_weight = np.zeros(vis_shape)
StokesZeros(tel, vis) ==
    LET z == ZeroSlab(Len(vis[1]), Len(vis[1][1]))
    IN  [vis_I      |-> [ui \in DOMAIN Ubase(tel) |-> z],
         vis_weight |-> [ui \in DOMAIN Ubase(tel) |-> z]]

\* The loop over the products 1..n, from the zero arrays.
RECURSIVE StokesLoop(_, _, _, _)
StokesLoop(tel, vis, weight, n) ==
    IF n = 0 THEN StokesZeros(tel, vis)
    ELSE StokesStep(StokesLoop(tel, vis, weight, n - 1), tel, vis, weight, n)

\* stokes_I(sstream, tel): vis_I, vis_weight and baselines (= ubase).
stokes_I(tel, vis, weight) ==
    LET r == StokesLoop(tel, vis, weight, Len(tel.baselines))
    IN  [vis_I |-> r.vis_I, vis_weight |-> r.vis_weight, baselines |-> Ubase(tel)]

\* ---- specification of the Stokes I extraction ----
\* Feeds 1 and 3 are X feeds (class 0), feeds 2 and 4 are Y feeds (class 1),
\* feed 5 is of a third beam class.
BeamClasses == <<0, 1, 0, 1, 2>>
XX  == <<1, 3>>
XY  == <<1, 4>>
YX  == <<2, 3>>
YY  == <<2, 4>>
ZX == <<5, 3>>

\* Five products: which baseline each belongs to, and which feed pair it is.
BaselineLayouts ==
    {<<1, 1, 1, 1, 2>>, <<2, 1, 1, 1, 1>>, <<5, 3, 3, 5, 3>>, <<7, 7, 7, 7, 7>>}
PairLayouts ==
    {<<XX, XY, YX, YY, ZX>>, <<XX, ZX, XY, YX, YY>>, <<YY, XY, XX, ZX, YX>>}
MaskedSets == {{}, {XX}, {YY}, {XY}, {XX, ZX}}

Telescopes ==
    {[baselines |-> b, uniquepairs |-> p, beamclass |-> BeamClasses, masked |-> m] :
        b \in BaselineLayouts, p \in PairLayouts, m \in MaskedSets}

\* The polarisation combinations present among the products of baseline ui.
Combinations(tel, ui) ==
    {<<tel.beamclass[tel.uniquepairs[ii][1]], tel.beamclass[tel.uniquepairs[ii][2]]>> :
        ii \in {k \in DOMAIN tel.baselines : Uinv(tel)[k] = ui}}
AllFourCombinations == {<<0, 0>>, <<0, 1>>, <<1, 0>>, <<1, 1>>}

StokesVisValues == {1, 2}
OneByOne(v) == <<<<v>>>>

IdleStokes ==
    /\ st_pc = "idle" /\ st_tel = None /\ st_vis = <<>> /\ st_weight = <<>>
    /\ st_ii = 0 /\ st_vis_I = <<>> /\ st_vis_weight = <<>>

\* The state at the head of the loop, the output arrays zeroed.
StokesInit ==
    /\ st_pc = "loop"
    /\ st_tel \in Telescopes
    /\ \E v \in [1..5 -> StokesVisValues] : st_vis = [ii \in 1..5 |-> OneByOne(v[ii])]
    /\ st_weight = [ii \in 1..5 |-> OneByOne(ii)]
    /\ st_ii = 0
    /\ st_vis_I = StokesZeros(st_tel, st_vis).vis_I
    /\ st_vis_weight = StokesZeros(st_tel, st_vis).vis_weight

\* One iteration of the loop over the products.
StokesLoopStep ==
    /\ st_pc = "loop"
    /\ st_ii < Len(st_tel.baselines)
    /\ LET r == StokesStep([vis_I |-> st_vis_I, vis_weight |-> st_vis_weight],
                           st_tel, st_vis, st_weight, st_ii + 1)
       IN  /\ st_vis_I' = r.vis_I
           /\ st_vis_weight' = r.vis_weight
    /\ st_ii' = st_ii + 1
    /\ UNCHANGED <<st_pc, st_tel, st_vis, st_weight>>

\* The loop is exhausted; the arrays are wrapped, redistributed and returned.
StokesReturn ==
    /\ st_pc = "loop"
    /\ st_ii = Len(st_tel.baselines)
    /\ st_pc' = "done"
    /\ UNCHANGED <<st_tel, st_vis, st_weight, st_ii, st_vis_I, st_vis_weight>>

(***************************************************************************)
(* Distributed arrays (caput.mpiarray, as used at delay.py:43-53, 141-165) *)
(***************************************************************************)
NWorkers == 2
Workers  == 0..(NWorkers - 1)

Min(a, b) == IF a < b THEN a ELSE b

\* The distributed axis of length n is split into contiguous chunks, the
\* first n % size workers holding one element more.
LocalCount(n, rank) == n \div NWorkers + (IF rank < n % NWorkers THEN 1 ELSE 0)
LocalStart(n, rank) == rank * (n \div NWorkers) + Min(rank, n % NWorkers)

\* Subscripting a distributed dataset subscripts the worker's local array:
\* index idx (0-based) on the distributed axis of local length nlocal.
LocalSubscript(nlocal, idx) ==
    IF idx < nlocal THEN [kind |-> "ok", at |-> idx]
    ELSE [kind |-> "IndexError", at |-> None]

(***************************************************************************)
(* DelayFilter.process                                                     *)
(***************************************************************************)
ExceptionClasses == {"NotImplementedError", "TypeError", "ValueError",
                     "IndexError", "KeyError"}

\* `raise X(...)`: X(...) is evaluated first.  Calling an exception class
\* gives an instance, which is raised; calling an object that is not
\* callable raises TypeError.
RaiseCalling(X) == IF X \in ExceptionClasses THEN X ELSE "TypeError"

\* raise NotImplemented("Weight updating is not implemented."):
\* NotImplemented is the comparison singleton, not an exception class.
UpdateWeightRaises == RaiseCalling("NotImplemented")

\* np.dot(NF, ss.vis[:, bi]) for one product: NF = num/den applied to a
\* column of rationals over one denominator.
FilterColumn(NF, col) ==
    [c \in DOMAIN col |->
        [n |-> SumSeq([k \in DOMAIN col |-> NF.num[c][k] * col[k].n]),
         d |-> NF.den * col[c].d]]

\* The body of `for lbi, bi in ss.vis[:].enumerate(axis=1)` on one worker:
\* freq_weight = np.median(ss.weight[:, bi], axis=1)   (one time sample)
\* NF = null_delay_filter(freq, self.delay_cut, freq_weight)
\* ss.vis[:, bi] = np.dot(NF, ss.vis[:, bi])
\* lbi is the local and bi the global index of the product; ss.weight[:, bi]
\* and ss.vis[:, bi] subscript the worker's local arrays with bi.
FilterBody(rank, lbi, freq, cut, vis, weight) ==
    LET nprod  == Len(vis)
        start  == LocalStart(nprod, rank)
        bi     == start + lbi
        sub    == LocalSubscript(LocalCount(nprod, rank), bi)
        col    == start + sub.at + 1
        NF     == null_delay_filter(freq, cut, weight[col], TRUE)
    IN  IF sub.kind # "ok" THEN [kind |-> sub.kind, vis |-> vis]
        ELSE IF NF.kind # "ok" THEN [kind |-> NF.kind, vis |-> vis]
        ELSE [kind |-> "ok",
              vis |-> [vis EXCEPT ![col] = FilterColumn(NF, vis[col])]]

\* ---- specification of the filter task ----
MaxProd == 3
FilterVisValues == {1, 2}
FilterWeightValues == {0, 1}

IdleFilter ==
    /\ df_update_weight = FALSE /\ df_delay_cut = None /\ df_freq = <<>>
    /\ df_vis = <<>> /\ df_weight = <<>> /\ df_vis0 = <<>> /\ df_dist = None
    /\ df_wpc = <<>> /\ df_lbi = <<>> /\ df_exc = <<>> /\ df_ncoll = <<>>

\* process(ss) is entered on every worker; ss comes distributed over freq.
FilterInit ==
    /\ df_update_weight \in BOOLEAN
    /\ df_delay_cut \in {"zero", "wide"}
    /\ df_freq \in FilterAxes
    /\ \E nprod \in 1..MaxProd :
          /\ \E v \in [1..nprod -> FilterVisValues] :
                df_vis = [p \in 1..nprod |->
                             [c \in 1..Len(df_freq) |-> [n |-> v[p], d |-> 1]]]
          /\ \E w \in [1..nprod -> FilterWeightValues] :
                df_weight = [p \in 1..nprod |-> [c \in 1..Len(df_freq) |-> w[p]]]
    /\ df_vis0 = df_vis
    /\ df_dist = "freq"
    /\ df_wpc = [w \in Workers |-> "start"]
    /\ df_lbi = [w \in Workers |-> 0]
    /\ df_exc = [w \in Workers |-> None]
    /\ df_ncoll = [w \in Workers |-> 0]

\* if self.update_weight: raise NotImplemented(...)
FilterRaiseUpdateWeight(w) ==
    /\ df_wpc[w] = "start"
    /\ df_update_weight
    /\ df_wpc' = [df_wpc EXCEPT ![w] = "raised"]
    /\ df_exc' = [df_exc EXCEPT ![w] = UpdateWeightRaises]
    /\ UNCHANGED <<df_update_weight, df_delay_cut, df_freq, df_vis, df_weight,
                   df_vis0, df_dist, df_lbi, df_ncoll>>

\* ss.redistribute('prod'): the worker enters the collective.
FilterEnterRedistribute(w) ==
    /\ df_wpc[w] = "start"
    /\ ~df_update_weight
    /\ df_wpc' = [df_wpc EXCEPT ![w] = "redistribute"]
    /\ df_ncoll' = [df_ncoll EXCEPT ![w] = @ + 1]
    /\ UNCHANGED <<df_update_weight, df_delay_cut, df_freq, df_vis, df_weight,
                   df_vis0, df_dist, df_lbi, df_exc>>

\* The collective completes once every worker has entered it.
FilterRedistributed ==
    /\ \A w \in Workers : df_wpc[w] = "redistribute"
    /\ df_dist' = "prod"
    /\ df_wpc' = [w \in Workers |-> "loop"]
    /\ UNCHANGED <<df_update_weight, df_delay_cut, df_freq, df_vis, df_weight,
                   df_vis0, df_lbi, df_exc, df_ncoll>>

\* One iteration of the loop over the worker's products.
FilterLoopStep(w) ==
    /\ df_wpc[w] = "loop"
    /\ df_lbi[w] < LocalCount(Len(df_vis), w)
    /\ LET r == FilterBody(w, df_lbi[w], df_freq, df_delay_cut, df_vis, df_weight)
       IN  IF r.kind = "ok"
           THEN /\ df_vis' = r.vis
                /\ df_lbi' = [df_lbi EXCEPT ![w] = @ + 1]
                /\ UNCHANGED <<df_wpc, df_exc>>
           ELSE /\ df_wpc' = [df_wpc EXCEPT ![w] = "raised"]
                /\ df_exc' = [df_exc EXCEPT ![w] = r.kind]
                /\ UNCHANGED <<df_vis, df_lbi>>
    /\ UNCHANGED <<df_update_weight, df_delay_cut, df_freq, df_weight, df_vis0,
                   df_dist, df_ncoll>>

\* return ss
FilterReturn(w) ==
    /\ df_wpc[w] = "loop"
    /\ df_lbi[w] = LocalCount(Len(df_vis), w)
    /\ df_wpc' = [df_wpc EXCEPT ![w] = "done"]
    /\ UNCHANGED <<df_update_weight, df_delay_cut, df_freq, df_vis, df_weight,
                   df_vis0, df_dist, df_lbi, df_exc, df_ncoll>>

(***************************************************************************)
(* DelaySpectrumEstimator.process                                          *)
(***************************************************************************)
\* Order and mean of two rationals.
RatLess(a, b) == a.n * b.d < b.n * a.d
RatLeq(a, b)  == a.n * b.d <= b.n * a.d
RatMean(a, b) == [n |-> a.n * b.d + b.n * a.d, d |-> 2 * a.d * b.d]

\* The k-th smallest (1-based) of a non-empty sequence of rationals.
KthSmallest(vals, k) ==
    CHOOSE x \in Range(vals) :
        /\ Cardinality({i \in DOMAIN vals : RatLess(vals[i], x)}) < k
        /\ k <= Cardinality({i \in DOMAIN vals : RatLeq(vals[i], x)})

\* np.median of a non-empty sequence: the middle value, or the mean of the
\* two middle values.
Median(vals) ==
    LET n == Len(vals)
    IN  IF n % 2 = 1 THEN KthSmallest(vals, (n + 1) \div 2)
        ELSE RatMean(KthSmallest(vals, n \div 2), KthSmallest(vals, n \div 2 + 1))

\* The first index (0-based) of the Python slice seq[start:] of a sequence
\* of length len: a negative start counts from the end, -0 is 0.
PySliceStart(len, start) ==
    IF start < 0 THEN (IF len + start < 0 THEN 0 ELSE len + start)
    ELSE Min(start, len)

\* The indices (0-based) of spec[-(self.nsamp / 2):], len(spec) = nsamp.
KeptDraws(nsamp) ==
    {k \in 0..(nsamp - 1) : k >= PySliceStart(nsamp, -(nsamp \div 2))}

\* np.median(spec[-(self.nsamp / 2):], axis=0): per delay sample, the median
\* over the draws kept.
SpecAverage(spec, nsamp) ==
    LET kept == SortedSeq(KeptDraws(nsamp))
    IN  [i \in DOMAIN spec[1] |->
            Median([j \in DOMAIN kept |-> spec[kept[j] + 1][i]])]

\* np.fft.fftshift of a sequence of even length: the two halves swapped.
FftShift(x) ==
    LET n == Len(x)
    IN  [k \in 1..n |-> x[((k - 1 + n \div 2) % n) + 1]]

\* np.abs(np.diff(ss.freq['centre'])).min()
MinGap(centre) ==
    LET gaps == {Abs(centre[i + 1] - centre[i]) : i \in 1..(Len(centre) - 1)}
    IN  CHOOSE g \in gaps : \A h \in gaps : g <= h

\* channel_ind = (np.abs(centre - freq_zero) / freq_spacing).astype(np.int)
ChannelInd(centre, freq_zero, freq_spacing) ==
    [i \in DOMAIN centre |-> Abs(centre[i] - freq_zero) \div freq_spacing]

\* The count taken from the highest index instead of the last one.
InferredNfreqHighest(channel_ind, skip_nyquist) ==
    (CHOOSE m \in Range(channel_ind) : \A k \in Range(channel_ind) : k <= m)
        + 1 + (IF skip_nyquist THEN 1 ELSE 0)

\* self.nfreq = channel_ind[-1] + 1; if self.skip_nyquist: self.nfreq += 1
InferredNfreq(channel_ind, skip_nyquist) ==
    channel_ind[Len(channel_ind)] + 1 + (IF skip_nyquist THEN 1 ELSE 0)

\* An optional attribute is <<>> while it is None and <<v>> once it holds v.
Unset == <<>>

\* if self.x is None: self.x = <inferred from ss>: self.x after the statement.
AttributeOrInferred(attribute, inferred) ==
    IF attribute = Unset THEN <<inferred>> ELSE attribute

\* A test that never skips a baseline.
DataNeverZero(data) == FALSE

\* (data == 0.0).all()
DataAllZero(data) == IsZeroSlab(data)

\* weight = np.median(vis_weight[lbi], axis=1): per channel, over time.
MedianWeight(wslab) ==
    [c \in DOMAIN wslab |-> Median([t \in DOMAIN wslab[c] |-> [n |-> wslab[c][t], d |-> 1]])]

\* The runs of the sampler's loop from iteration ii on, given the signal and
\* chi-squared values the generator may draw: each run ends with the list
\* returned or with the exception raised.
RECURSIVE GibbsRuns(_, _, _, _, _, _)
GibbsRuns(S, spec, ii, niter, signals, chi2s) ==
    IF ii = niter THEN {[kind |-> "ok", spec |-> spec]}
    ELSE LET r == draw_signal_sample(S, signals)
         IN  IF r.kind # "ok" THEN {[kind |-> r.kind, spec |-> spec]}
             ELSE UNION {
                    UNION { GibbsRuns(draw_ps_sample(d, c),
                                      Append(spec, draw_ps_sample(d, c)),
                                      ii + 1, niter, signals, chi2s)
                            : c \in chi2s }
                    : d \in r.draws }

\* The draws the model lets the generator make inside the task: signal
\* column 1 of delay sample i is v * i, the other columns are 0; every
\* chi-squared draw is 1.
EstSignalValues == {0, 1, 2}
EstSignals(N, T) ==
    {[i \in 1..N |-> [t \in 1..T |-> IF t = 1 THEN v * i ELSE 0]] : v \in EstSignalValues}
EstChi2s(N) == {[i \in 1..N |-> 1]}

\* ---- what a call does to the arrays it is handed ----
\* A name of the body refers to one of the caller's arrays ("data", "Ni",
\* "initial_S") or to an array the body created ("local").  A statement
\* either binds a name to an array or writes into the array a name refers to.
CallerArrays == {"data", "Ni", "initial_S"}
Bind(name, to)           == [op |-> "bind", name |-> name, to |-> to, line |-> 0, value |-> <<>>]
Write(name, line, value) == [op |-> "write", name |-> name, to |-> "", line |-> line, value |-> value]

\* The draw written into the array S_samp refers to: S_samp[:] = ...
PsDrawStatementInPlace(S) == Write("S_samp", 445, S)

\* S_samp = _draw_ps_sample(d_samp): the name is bound to the new array.
PsDrawStatement(S) == Bind("S_samp", "local")

\* The binding and writing statements of the body (window=True), in order,
\* for a run that made the draws spec.
GibbsStatements(spec) ==
    <<Bind("spec", "local"),          \* 363: spec = []
      Bind("F", "local"),             \* 371: F = fourier_matrix_r2c(N, fsel)
      Bind("data", "local"),          \* 374: data = data.astype(...).view(...).T.copy()
      Bind("w", "local"),             \* 381-382
      Write("F", 385, <<>>),          \* 385: F *= w[:, np.newaxis]
      Write("data", 386, <<>>),       \* 386: data *= w[:, np.newaxis]
      Bind("Ni_r", "local"),          \* 392: Ni_r = np.zeros(...)
      Write("Ni_r", 393, <<>>),       \* 393: Ni_r[0::2] = ...
      Write("Ni_r", 394, <<>>),       \* 394: Ni_r[1::2] = ...
      Bind("S_samp", "initial_S")>>   \* 401: S_samp = initial_S
    \o [k \in DOMAIN spec |-> PsDrawStatement(spec[k])]      \* 445

\* The effect of one statement on the bindings env, on the write record of
\* the caller's arrays and on the value of the caller's initial_S.
ExecStatement(st, stmt) ==
    IF stmt.op = "bind"
    THEN [st EXCEPT !.env = [n \in DOMAIN st.env \cup {stmt.name} |->
                                IF n = stmt.name THEN stmt.to ELSE st.env[n]]]
    ELSE LET target == st.env[stmt.name]
         IN  IF target \notin CallerArrays THEN st
             ELSE [st EXCEPT !.writes[target] = Append(@, stmt.line),
                             !.initial_S = IF target = "initial_S"
                                           THEN stmt.value ELSE @]

RECURSIVE ExecStatements(_, _, _)
ExecStatements(st, stmts, k) ==
    IF k > Len(stmts) THEN st
    ELSE ExecStatements(ExecStatement(st, stmts[k]), stmts, k + 1)

\* The caller's arrays after a call that made the draws spec: the write
\* record writes extended, and the value of initial_S.
ArgumentsAfter(writes, initial_S, spec) ==
    LET st == ExecStatements(
                  [env |-> [n \in CallerArrays |-> n],
                   writes |-> writes, initial_S |-> initial_S],
                  GibbsStatements(spec), 1)
    IN  [writes |-> st.writes, initial_S |-> st.initial_S]

NoWrites == [a \in CallerArrays |-> <<>>]

\* delay_spectrum_gibbs(data, N, Ni, initial_S, fsel=..., niter=...): the
\* outcomes the call can have.  data is data[time][channel].
delay_spectrum_gibbs(data, N, Ni, initial_S, fsel, niter) ==
    GibbsRuns(initial_S, <<>>, 0, niter, EstSignals(N, Len(data)), EstChi2s(N))

\* vis_I[lbi].view(np.ndarray).T: [channel][time] to [time][channel].
Transpose(slab) ==
    [t \in DOMAIN slab[1] |-> [c \in DOMAIN slab |-> slab[c][t]]]

\* ---- specification of the estimator task ----
MaxNsamp == 3
MaxCalls == 2
\* Frequency axes (channel centres) of the datasets.
EstAxes == {<<0, 29>>, <<20, 40>>, <<60, 30>>}
\* Values a configuration may set.
CfgFreqZero    == {Unset, <<0>>}
CfgFreqSpacing == {Unset, <<10>>}
CfgNfreq       == {Unset, <<3>>}

\* Telescopes: two complete baselines and an incomplete one; two complete ones.
EstTelescopes ==
    {[baselines   |-> <<1, 1, 1, 1, 2, 2, 2, 2, 3>>,
      uniquepairs |-> <<XX, XY, YX, YY, XX, XY, YX, YY, XX>>,
      beamclass   |-> BeamClasses, masked |-> {}],
     [baselines   |-> <<1, 1, 1, 1, 2, 2, 2, 2>>,
      uniquepairs |-> <<XX, XY, YX, YY, XX, XY, YX, YY>>,
      beamclass   |-> BeamClasses, masked |-> {}]}
\* Every product of baseline b holds the value bright[b] at every channel
\* and time; every weight is 1.
EstBrightness == {0, 1}
EstVis(tel, bright, nchan, T) ==
    [ii \in DOMAIN tel.baselines |->
        [c \in 1..nchan |-> [t \in 1..T |-> bright[Uinv(tel)[ii]]]]]
EstWeight(tel, nchan, T) ==
    [ii \in DOMAIN tel.baselines |-> [c \in 1..nchan |-> [t \in 1..T |-> 1]]]
\* Channels per dataset: the length of the frequency axes.
EstChannels == Len(CHOOSE centre \in EstAxes : TRUE)
\* What stokes_I returns for the datasets: vis_I, vis_weight, baselines.
EstStokes ==
    UNION { UNION { { stokes_I(tel, EstVis(tel, bright, EstChannels, T),
                               EstWeight(tel, EstChannels, T))
                      : bright \in [DOMAIN Ubase(tel) -> EstBrightness] }
                    : T \in 1..MaxTime }
            : tel \in EstTelescopes }

IdleEstimator ==
    /\ es_cfg = <<>> /\ self_freq_zero = Unset /\ self_freq_spacing = Unset
    /\ self_nfreq = Unset /\ es_pc = "off" /\ es_calls = 0 /\ es_freq = <<>>
    /\ es_vis_I = <<>> /\ es_vis_weight = <<>> /\ es_channel_ind = <<>>
    /\ es_ndelay = 0 /\ es_spectrum = <<>> /\ es_wpc = <<>> /\ es_lbi = <<>>
    /\ es_exc = <<>> /\ es_sampled = {} /\ es_last_run = <<>>
    /\ es_initial_S = <<>> /\ es_arg_writes = <<>> /\ es_ncoll = <<>>

\* The task as configured and set up, before the first call of process.
EstimatorInit ==
    /\ es_cfg \in [nsamp : 1..MaxNsamp, freq_zero : CfgFreqZero,
                   freq_spacing : CfgFreqSpacing, nfreq : CfgNfreq,
                   skip_nyquist : BOOLEAN]
    /\ self_freq_zero = es_cfg.freq_zero
    /\ self_freq_spacing = es_cfg.freq_spacing
    /\ self_nfreq = es_cfg.nfreq
    /\ es_pc = "idle"
    /\ es_calls = 0
    /\ es_freq = <<>> /\ es_vis_I = <<>> /\ es_vis_weight = <<>>
    /\ es_channel_ind = <<>> /\ es_ndelay = 0 /\ es_spectrum = <<>>
    /\ es_wpc = [w \in Workers |-> "done"]
    /\ es_lbi = [w \in Workers |-> 0]
    /\ es_exc = [w \in Workers |-> None]
    /\ es_sampled = {}
    /\ es_last_run = <<>>
    /\ es_initial_S = <<>>
    /\ es_arg_writes = NoWrites
    /\ es_ncoll = [w \in Workers |-> 0]

\* The redistributions a worker enters on its way to the loop, in order:
\* delay.py:114, 222, 223-225 (inside stokes_I) and 141.
PreLoopRedistributions ==
    <<"ss.redistribute('freq')", "vis_I.redistribute(axis=0)",
      "vis_weight.redistribute(axis=0)", "delay_spec.redistribute('baselines')">>

\* A loop body that redistributes unless the baseline is skipped.
LoopRedistributionsUnlessSkipped(skipped) == IF skipped THEN 0 ELSE 1

\* The redistributions one pass of the loop body enters (delay.py:147-165):
\* none, whether the baseline is skipped or not.
LoopRedistributions(skipped) == 0

\* The pipeline calls process(ss) on every worker.
EstimatorCall ==
    /\ es_pc = "idle"
    /\ es_calls < MaxCalls
    /\ es_pc' = "setup"
    /\ es_calls' = es_calls + 1
    /\ es_wpc' = [w \in Workers |-> "setup"]
    /\ es_ncoll' = [w \in Workers |-> 0]
    /\ es_exc' = [w \in Workers |-> None]
    /\ UNCHANGED <<es_cfg, self_freq_zero, self_freq_spacing, self_nfreq,
                   es_freq, es_vis_I, es_vis_weight, es_channel_ind, es_ndelay,
                   es_spectrum, es_lbi, es_sampled, es_last_run, es_initial_S,
                   es_arg_writes>>

\* Worker w reaches its next redistribution and enters it.
EstimatorEnterRedistribute(w) ==
    /\ es_pc = "setup"
    /\ es_wpc[w] = "setup"
    /\ es_ncoll[w] < Len(PreLoopRedistributions)
    /\ es_wpc' = [es_wpc EXCEPT ![w] = "redistribute"]
    /\ es_ncoll' = [es_ncoll EXCEPT ![w] = @ + 1]
    /\ UNCHANGED <<es_cfg, self_freq_zero, self_freq_spacing, self_nfreq, es_pc,
                   es_calls, es_freq, es_vis_I, es_vis_weight, es_channel_ind,
                   es_ndelay, es_spectrum, es_lbi, es_exc, es_sampled,
                   es_last_run, es_initial_S, es_arg_writes>>

\* A redistribution before the last one completes once every worker has
\* entered it.
EstimatorRedistributed ==
    /\ es_pc = "setup"
    /\ \A w \in Workers : es_wpc[w] = "redistribute"
    /\ \E k \in 1..(Len(PreLoopRedistributions) - 1) :
          \A w \in Workers : es_ncoll[w] = k
    /\ es_wpc' = [w \in Workers |-> "setup"]
    /\ UNCHANGED <<es_cfg, self_freq_zero, self_freq_spacing, self_nfreq, es_pc,
                   es_calls, es_freq, es_vis_I, es_vis_weight, es_channel_ind,
                   es_ndelay, es_spectrum, es_lbi, es_exc, es_sampled,
                   es_last_run, es_initial_S, es_arg_writes, es_ncoll>>

\* The last redistribution completes and the workers stand at the head of
\* the loop: the state holds what process has computed on the way from the
\* dataset ss, on every worker alike: stokes_I, the frequency structure and
\* the zeroed spectrum container.
EstimatorBegin ==
    /\ es_pc = "setup"
    /\ \A w \in Workers :
          es_wpc[w] = "redistribute" /\ es_ncoll[w] = Len(PreLoopRedistributions)
    /\ \E centre \in EstAxes, st \in EstStokes :
          LET f0   == AttributeOrInferred(self_freq_zero, centre[1])
              df   == AttributeOrInferred(self_freq_spacing, MinGap(centre))
              ind  == ChannelInd(centre, f0[1], df[1])
              nf   == AttributeOrInferred(self_nfreq,
                                          InferredNfreq(ind, es_cfg.skip_nyquist))
              ndel == 2 * (nf[1] - 1)
          IN  /\ es_freq' = centre
              /\ es_vis_I' = st.vis_I
              /\ es_vis_weight' = st.vis_weight
              /\ self_freq_zero' = f0
              /\ self_freq_spacing' = df
              /\ self_nfreq' = nf
              /\ es_channel_ind' = ind
              /\ es_ndelay' = ndel
              /\ es_spectrum' = [b \in DOMAIN st.baselines |->
                                    [k \in 1..ndel |-> [n |-> 0, d |-> 1]]]
              /\ es_initial_S' = [k \in 1..ndel |-> [n |-> 10, d |-> 1]]
    /\ es_pc' = "running"
    /\ es_wpc' = [w \in Workers |-> "loop"]
    /\ es_lbi' = [w \in Workers |-> 0]
    /\ es_sampled' = {}
    /\ es_last_run' = <<>>
    /\ es_arg_writes' = NoWrites
    /\ UNCHANGED <<es_cfg, es_calls, es_exc, es_ncoll>>

\* One iteration of `for lbi, bi in delay_spec.spectrum[:].enumerate(axis=0)`
\* on worker w.  lbi is the local and bi the global index of the baseline;
\* vis_I[lbi] is the worker's lbi-th row, i.e. baseline bi;
\* delay_spec.spectrum[bi] subscripts the worker's local rows with bi.
EstimatorLoopStep(w) ==
    /\ es_pc = "running"
    /\ es_wpc[w] = "loop"
    /\ es_lbi[w] < LocalCount(Len(es_vis_I), w)
    /\ LET nbase  == Len(es_vis_I)
           start  == LocalStart(nbase, w)
           bi     == start + es_lbi[w]
           data   == Transpose(es_vis_I[start + es_lbi[w] + 1])
           weight == MedianWeight(es_vis_weight[start + es_lbi[w] + 1])
           init_S == es_initial_S
           sub    == LocalSubscript(LocalCount(nbase, w), bi)
       IN  /\ es_ncoll' = [es_ncoll EXCEPT
                              ![w] = @ + LoopRedistributions(DataAllZero(data))]
           /\ IF DataAllZero(data)
              THEN \* continue
                   /\ es_lbi' = [es_lbi EXCEPT ![w] = @ + 1]
                   /\ UNCHANGED <<es_spectrum, es_wpc, es_exc, es_sampled, es_last_run,
                                  es_initial_S, es_arg_writes>>
              ELSE \E run \in delay_spectrum_gibbs(data, es_ndelay, weight, init_S,
                                                   es_channel_ind, es_cfg.nsamp) :
                   /\ es_sampled' = es_sampled \cup {bi + 1}
                   /\ LET after == ArgumentsAfter(es_arg_writes, es_initial_S, run.spec)
                      IN  /\ es_arg_writes' = after.writes
                          /\ es_initial_S' = after.initial_S
                   /\ IF run.kind # "ok"
                      THEN /\ es_wpc' = [es_wpc EXCEPT ![w] = "raised"]
                           /\ es_exc' = [es_exc EXCEPT ![w] = run.kind]
                           /\ UNCHANGED <<es_spectrum, es_lbi, es_last_run>>
                      ELSE IF sub.kind # "ok"
                      THEN /\ es_wpc' = [es_wpc EXCEPT ![w] = "raised"]
                           /\ es_exc' = [es_exc EXCEPT ![w] = sub.kind]
                           /\ UNCHANGED <<es_spectrum, es_lbi, es_last_run>>
                      ELSE /\ es_spectrum' =
                                 [es_spectrum EXCEPT ![start + sub.at + 1] =
                                     FftShift(SpecAverage(run.spec, es_cfg.nsamp))]
                           /\ es_last_run' = <<[row  |-> start + sub.at + 1,
                                               ndraws |-> Len(run.spec),
                                               read |-> bi + 1,
                                               start |-> init_S,
                                               kept |-> KeptDraws(es_cfg.nsamp)]>>
                           /\ es_lbi' = [es_lbi EXCEPT ![w] = @ + 1]
                           /\ UNCHANGED <<es_wpc, es_exc>>
    /\ UNCHANGED <<es_cfg, self_freq_zero, self_freq_spacing, self_nfreq, es_pc,
                   es_calls, es_freq, es_vis_I, es_vis_weight, es_channel_ind,
                   es_ndelay>>

\* return delay_spec on worker w.
EstimatorReturn(w) ==
    /\ es_pc = "running"
    /\ es_wpc[w] = "loop"
    /\ es_lbi[w] = LocalCount(Len(es_vis_I), w)
    /\ es_wpc' = [es_wpc EXCEPT ![w] = "done"]
    /\ UNCHANGED <<es_cfg, self_freq_zero, self_freq_spacing, self_nfreq, es_pc,
                   es_calls, es_freq, es_vis_I, es_vis_weight, es_channel_ind,
                   es_ndelay, es_spectrum, es_lbi, es_exc, es_sampled, es_last_run,
                   es_initial_S, es_arg_writes, es_ncoll>>

\* Every worker has returned: the container and the locals of the call leave
\* the task, its attributes stay, and the pipeline may call process again.
EstimatorEnd ==
    /\ es_pc = "running"
    /\ \A w \in Workers : es_wpc[w] = "done"
    /\ es_pc' = "idle"
    /\ es_freq' = <<>> /\ es_vis_I' = <<>> /\ es_vis_weight' = <<>>
    /\ es_channel_ind' = <<>> /\ es_ndelay' = 0 /\ es_spectrum' = <<>>
    /\ es_sampled' = {} /\ es_last_run' = <<>>
    /\ es_initial_S' = <<>> /\ es_arg_writes' = NoWrites
    /\ UNCHANGED <<es_cfg, self_freq_zero, self_freq_spacing, self_nfreq,
                   es_calls, es_wpc, es_lbi, es_exc, es_ncoll>>

(***************************************************************************)
(* The noise weights of delay_spectrum_gibbs                               *)
(***************************************************************************)
\* A weight is num, or num / 2**0.5 when root2 is set; 0 / 2**0.5 is 0.
Weight(num) == [num |-> num, root2 |-> FALSE]
OverRoot2(num) == IF num = 0 THEN Weight(0) ELSE [num |-> num, root2 |-> TRUE]

\* Only the zero frequency taken as real.
IsRealFreqZeroOnly(fsel, N) == [k \in DOMAIN fsel |-> fsel[k] = 0]

\* is_real_freq = (fsel == 0) | (fsel == N / 2)
IsRealFreq(fsel, N) == [k \in DOMAIN fsel |-> fsel[k] = 0 \/ fsel[k] = N \div 2]

\* Ni_r = np.zeros(2 * Ni.shape[0])
\* Ni_r[0::2] = np.where(is_real_freq, Ni, Ni / 2**0.5)
\* Ni_r[1::2] = np.where(is_real_freq, 0.0, Ni / 2**0.5)
NoiseWeights(Ni, fsel, N) ==
    LET is_real_freq == IsRealFreq(fsel, N)
    IN  [j \in 1..(2 * Len(Ni)) |->
            LET k == (j + 1) \div 2
            IN  IF j % 2 = 1
                THEN (IF is_real_freq[k] THEN Weight(Ni[k]) ELSE OverRoot2(Ni[k]))
                ELSE (IF is_real_freq[k] THEN Weight(0) ELSE OverRoot2(Ni[k]))]

\* ---- specification of the noise weights ----
NoiseSizes == {2, 4}
MaxSelected == 3
NiValues == {0, 1, 2}

IdleNoise ==
    /\ nw_pc = "idle" /\ nw_N = 0 /\ nw_fsel = <<>> /\ nw_Ni = <<>>
    /\ nw_Ni_r = <<>>

\* The call has reached delay.py:388: fsel is the caller's selection or the
\* default np.arange(N / 2 + 1), Ni has one weight per selected channel.
NoiseInit ==
    /\ nw_pc = "start"
    /\ nw_N \in NoiseSizes
    /\ nw_fsel \in SeqsOf(0..(nw_N \div 2), 1, MaxSelected) \cup {DefaultFsel(nw_N)}
    /\ nw_Ni \in [DOMAIN nw_fsel -> NiValues]
    /\ nw_Ni_r = <<>>

\* delay.py:388-394
NoiseBuild ==
    /\ nw_pc = "start"
    /\ nw_Ni_r' = NoiseWeights(nw_Ni, nw_fsel, nw_N)
    /\ nw_pc' = "done"
    /\ UNCHANGED <<nw_N, nw_fsel, nw_Ni>>

(***************************************************************************)
(* m-mode packing (ch_pipeline/mapmaker.py)                                *)
(*                                                                         *)
(* A complex number is kept exactly as an element a + b z + c z^2 + d z^3  *)
(* of Z[z], z = exp(2 pi i / 8), z^4 = -1, written <<a, b, c, d>>, over a  *)
(* positive integer denominator: every root of unity of order 1, 2, 4 or 8 *)
(* is a power of z.  Arrays are indexed from 0 as in the source.           *)
(***************************************************************************)
ZZero == <<0, 0, 0, 0>>
ZOne  == <<1, 0, 0, 0>>
ZI    == <<0, 0, 1, 0>>
ZAdd(u, v) == [k \in 1..4 |-> u[k] + v[k]]

\* v times z^k, k >= 0: one factor z turns <<a, b, c, d>> into <<-d, a, b, c>>.
RECURSIVE ZTurn(_, _)
ZTurn(v, k) ==
    IF k = 0 THEN v
    ELSE ZTurn(<<-v[4], v[1], v[2], v[3]>>, k - 1)

\* The complex conjugate: z^-1 = -z^3, z^-2 = -z^2, z^-3 = -z.
ZConj(v) == <<v[1], -v[4], -v[3], -v[2]>>

RECURSIVE ZSum(_, _)
ZSum(f, S) ==
    IF S = {} THEN ZZero
    ELSE LET j == CHOOSE x \in S : TRUE
         IN  ZAdd(f[j], ZSum(f, S \ {j}))

\* np.fft.fft(ts, axis=-1) for n = len(ts) dividing 8:
\* out[k] = sum_j ts[j] exp(-2 pi i j k / n), exp(-2 pi i / n) = z^(8 - 8/n).
Fft(ts, n) ==
    [k \in 0..(n - 1) |->
        ZSum([j \in 0..(n - 1) |-> ZTurn(ts[j], ((8 - 8 \div n) * j * k) % 8)],
             0..(n - 1))]

\* range(1, mlimit - 1)
PackRange(mlimit) == {mi \in 1..(mlimit - 2) : TRUE}

\* _pack_marray with mmax=None: mmax = mmodes.shape[-1] / 2.
PackMmax(n) == n \div 2

\* mlimit = min(mmax, mmodes.shape[-1] / 2)
PackMlimit(n) == Min(PackMmax(n), n \div 2)

\* ---- specification of the m-mode transform ----
StreamLengths == {1, 2, 4, 8}
TsValues == {ZZero, ZOne, ZI}

IdleMmode ==
    /\ mm_pc = "idle" /\ mm_ts = <<>> /\ mm_mmodes = <<>> /\ mm_marray = <<>>
    /\ mm_mi = 0

\* _make_marray(ts) is entered.
MmodeInit ==
    /\ mm_pc = "fft"
    /\ \E n \in StreamLengths : mm_ts \in [0..(n - 1) -> TsValues]
    /\ mm_mmodes = <<>>
    /\ mm_marray = <<>>
    /\ mm_mi = 0

\* mmodes = np.fft.fft(ts, axis=-1) / ts.shape[-1]: numerators over the
\* denominator n.
MmodeFft ==
    /\ mm_pc = "fft"
    /\ LET n == Cardinality(DOMAIN mm_ts)
       IN  mm_mmodes' = [k \in 0..(n - 1) |-> [c |-> Fft(mm_ts, n)[k], d |-> n]]
    /\ mm_pc' = "pack"
    /\ UNCHANGED <<mm_ts, mm_marray, mm_mi>>

\* _pack_marray up to the loop: marray = np.zeros((mmax+1, 2) + shape);
\* marray[0, 0] = mmodes[..., 0].
MmodePackBegin ==
    /\ mm_pc = "pack"
    /\ LET n    == Cardinality(DOMAIN mm_mmodes)
           zero == [c |-> ZZero, d |-> 1]
       IN  mm_marray' = [m \in 0..PackMmax(n) |->
                            IF m = 0 THEN [pos |-> mm_mmodes[0], neg |-> zero]
                            ELSE [pos |-> zero, neg |-> zero]]
    /\ mm_mi' = 0
    /\ mm_pc' = "loop"
    /\ UNCHANGED <<mm_ts, mm_mmodes>>

\* One pass of `for mi in range(1, mlimit - 1)`:
\* marray[mi, 0] = mmodes[..., mi]; marray[mi, 1] = mmodes[..., -mi].conj()
MmodePackStep ==
    /\ mm_pc = "loop"
    /\ LET n  == Cardinality(DOMAIN mm_mmodes)
           mi == mm_mi + 1
       IN  /\ mi \in PackRange(PackMlimit(n))
           /\ mm_marray' = [mm_marray EXCEPT
                  ![mi] = [pos |-> mm_mmodes[mi],
                           neg |-> [c |-> ZConj(mm_mmodes[n - mi].c),
                                    d |-> mm_mmodes[n - mi].d]]]
    /\ mm_mi' = mm_mi + 1
    /\ UNCHANGED <<mm_pc, mm_ts, mm_mmodes>>

\* The range is exhausted: return marray.
MmodePackReturn ==
    /\ mm_pc = "loop"
    /\ (mm_mi + 1) \notin PackRange(PackMlimit(Cardinality(DOMAIN mm_mmodes)))
    /\ mm_pc' = "done"
    /\ UNCHANGED <<mm_ts, mm_mmodes, mm_marray, mm_mi>>

(***************************************************************************)
(* Specifications                                                          *)
(***************************************************************************)
OthersIdle(own) ==
    /\ ("mm" = own \/ IdleMmode)
    /\ ("nw" = own \/ IdleNoise)
    /\ ("win" = own \/ IdleWindow)
    /\ ("fm" = own \/ IdleFourier)
    /\ ("nf" = own \/ IdleNull)
    /\ ("gb" = own \/ IdleGibbs)
    /\ ("st" = own \/ IdleStokes)
    /\ ("df" = own \/ IdleFilter)
    /\ ("es" = own \/ IdleEstimator)

InitWindow == WindowInit /\ OthersIdle("win")
NextWindow == WindowCall /\ UNCHANGED <<fmVars, nfVars, gbVars, stVars, dfVars, esVars, nwVars, mmVars>>
SpecWindow == InitWindow /\ [][NextWindow]_vars

InitFourier == FourierInit /\ OthersIdle("fm")
NextFourier ==
    \/ FourierForward /\ UNCHANGED <<winVars, nfVars, gbVars, stVars, dfVars, esVars, nwVars, mmVars>>
    \/ FourierBackward /\ UNCHANGED <<winVars, nfVars, gbVars, stVars, dfVars, esVars, nwVars, mmVars>>
SpecFourier == InitFourier /\ [][NextFourier]_vars

InitNull == NullInit /\ OthersIdle("nf")
NextNull ==
    \/ NullCall /\ UNCHANGED <<winVars, fmVars, gbVars, stVars, dfVars, esVars, nwVars, mmVars>>
    \/ NullApplyOnce /\ UNCHANGED <<winVars, fmVars, gbVars, stVars, dfVars, esVars, nwVars, mmVars>>
    \/ NullApplyTwice /\ UNCHANGED <<winVars, fmVars, gbVars, stVars, dfVars, esVars, nwVars, mmVars>>
SpecNull == InitNull /\ [][NextNull]_vars

InitGibbs == GibbsInit /\ OthersIdle("gb")
NextGibbs ==
    \/ GibbsSignalDraw /\ UNCHANGED <<winVars, fmVars, nfVars, stVars, dfVars, esVars, nwVars, mmVars>>
    \/ GibbsPsDraw /\ UNCHANGED <<winVars, fmVars, nfVars, stVars, dfVars, esVars, nwVars, mmVars>>
    \/ GibbsReturn /\ UNCHANGED <<winVars, fmVars, nfVars, stVars, dfVars, esVars, nwVars, mmVars>>
SpecGibbs == InitGibbs /\ [][NextGibbs]_vars

InitStokes == StokesInit /\ OthersIdle("st")
NextStokes ==
    \/ StokesLoopStep /\ UNCHANGED <<winVars, fmVars, nfVars, gbVars, dfVars, esVars, nwVars, mmVars>>
    \/ StokesReturn /\ UNCHANGED <<winVars, fmVars, nfVars, gbVars, dfVars, esVars, nwVars, mmVars>>
SpecStokes == InitStokes /\ [][NextStokes]_vars

InitFilter == FilterInit /\ OthersIdle("df")
NextFilter ==
    \/ \E w \in Workers : FilterRaiseUpdateWeight(w) /\ UNCHANGED <<winVars, fmVars, nfVars, gbVars, stVars, esVars, nwVars, mmVars>>
    \/ \E w \in Workers : FilterEnterRedistribute(w) /\ UNCHANGED <<winVars, fmVars, nfVars, gbVars, stVars, esVars, nwVars, mmVars>>
    \/ FilterRedistributed /\ UNCHANGED <<winVars, fmVars, nfVars, gbVars, stVars, esVars, nwVars, mmVars>>
    \/ \E w \in Workers : FilterLoopStep(w) /\ UNCHANGED <<winVars, fmVars, nfVars, gbVars, stVars, esVars, nwVars, mmVars>>
    \/ \E w \in Workers : FilterReturn(w) /\ UNCHANGED <<winVars, fmVars, nfVars, gbVars, stVars, esVars, nwVars, mmVars>>
SpecFilter == InitFilter /\ [][NextFilter]_vars

InitNoise == NoiseInit /\ OthersIdle("nw")
NextNoise == NoiseBuild /\ UNCHANGED <<winVars, fmVars, nfVars, gbVars, stVars, dfVars, esVars, mmVars>>
SpecNoise == InitNoise /\ [][NextNoise]_vars

InitMmode == MmodeInit /\ OthersIdle("mm")
NextMmode ==
    \/ MmodeFft /\ UNCHANGED <<winVars, fmVars, nfVars, gbVars, stVars, dfVars, esVars, nwVars>>
    \/ MmodePackBegin /\ UNCHANGED <<winVars, fmVars, nfVars, gbVars, stVars, dfVars, esVars, nwVars>>
    \/ MmodePackStep /\ UNCHANGED <<winVars, fmVars, nfVars, gbVars, stVars, dfVars, esVars, nwVars>>
    \/ MmodePackReturn /\ UNCHANGED <<winVars, fmVars, nfVars, gbVars, stVars, dfVars, esVars, nwVars>>
SpecMmode == InitMmode /\ [][NextMmode]_vars

otherVars == <<winVars, fmVars, nfVars, gbVars, stVars, dfVars, nwVars, mmVars>>
InitEstimator == EstimatorInit /\ OthersIdle("es")
NextEstimator ==
    \/ EstimatorCall /\ UNCHANGED otherVars
    \/ \E w \in Workers : EstimatorEnterRedistribute(w) /\ UNCHANGED otherVars
    \/ EstimatorRedistributed /\ UNCHANGED otherVars
    \/ EstimatorBegin /\ UNCHANGED otherVars
    \/ \E w \in Workers : EstimatorLoopStep(w) /\ UNCHANGED otherVars
    \/ \E w \in Workers : EstimatorReturn(w) /\ UNCHANGED otherVars
    \/ EstimatorEnd /\ UNCHANGED otherVars
SpecEstimator == InitEstimator /\ [][NextEstimator]_vars

\* Either task, as a pipeline runs it on every worker.
InitTasks == InitFilter \/ InitEstimator
NextTasks ==
    \/ df_dist # None /\ NextFilter
    \/ es_pc # "off" /\ NextEstimator
SpecTasks == InitTasks /\ [][NextTasks]_vars

(***************************************************************************)
(* Claims                                                                  *)
(***************************************************************************)

\* C8 (as stated): window_generalised called with a family name that is not
\* one of the supported families fails with an InvalidConfiguration error
\* and returns no weights.
C8_RaisesInvalidConfiguration ==
    (win_pc # "call" /\ win_window \notin DOMAIN a_table)
        => (win_pc = "raised" /\ win_result.kind = "InvalidConfiguration"
            /\ win_result.w = None)

\* C8 (amended): window_generalised called with a family name that is not
\* one of the supported families fails with the KeyError of the coefficient
\* table lookup and returns no weights; with a supported name it returns one
\* weight per location.
C8_UnknownFamilyRaisesKeyError ==
    win_pc # "call" =>
        IF win_window \in DOMAIN a_table
        THEN win_pc = "returned" /\ win_result.kind = "ok"
             /\ DOMAIN win_result.w = DOMAIN win_x
        ELSE win_pc = "raised" /\ win_result.kind = "KeyError"
             /\ win_result.w = None

C8_Witness ==
    win_pc = "raised" /\ win_window = "hann" /\ win_result.kind = "KeyError"

\* C6: for even N and the default channel selection 0..N/2,
\* fourier_matrix_c2r(N) . fourier_matrix_r2c(N) is the N x N identity, and
\* a real series transformed to packed channels and back is reconstructed
\* (both sides times N, the denominator of the c2r normalisation).
C6_FourierRoundTrip ==
    /\ fm_pc # "idle" =>
         MatMul(fourier_matrix_c2r(fm_N, DefaultFsel(fm_N)),
                fourier_matrix_r2c(fm_N, DefaultFsel(fm_N)))
           = Scale(fm_N, Identity(fm_N))
    /\ fm_pc = "back" => fm_back = [t \in 1..fm_N |-> fm_N * fm_series[t]]

C6_Witness ==
    /\ fm_pc = "back" /\ fm_N = 4
    /\ fm_series = <<1, 0, -1, 1>>
    /\ fm_back = <<4, 0, -4, 4>>
\* Idempotence of a returned matrix num/den: (num/den)^2 = num/den, and the
\* data filtered twice equals the data filtered once.
NullIdempotent ==
    /\ nf_pc \in {"returned", "applied1", "applied2"} =>
         MatMul(nf_proj.num, nf_proj.num) = Scale(nf_proj.den, nf_proj.num)
    /\ nf_pc = "applied2" =>
         nf_twice = [i \in DOMAIN nf_once |-> nf_proj.den * nf_once[i]]

\* C7 (as stated): the matrix returned by null_delay_filter is idempotent
\* for every frequency axis, mask and cutoff, including with the default
\* window=True.
C7_IdempotentAlways == NullIdempotent

\* C7 (amended): the matrix returned by null_delay_filter with window=False,
\* I - P.P^H, is idempotent for every frequency axis, mask and cutoff:
\* applying it twice to a data vector gives what applying it once gives.
\* (With window=True the matrix is (I - P.P^H).diag(mask*w), which is not.)
C7_IdempotentWithoutWindow == (~nf_window) => NullIdempotent

C7_Witness ==
    /\ nf_pc = "applied2" /\ ~nf_window
    /\ nf_freq = <<0, 1, 3, 4>> /\ nf_max_delay = "zero"
    /\ nf_mask = <<1, 1, 1, 1>> /\ nf_data = <<0, 1, 0, 0>>
    /\ nf_proj.den = 2 /\ nf_once = <<0, 1, -1, 0>>
    /\ nf_twice = <<0, 2, -2, 0>>
\* C3: every power-spectrum value drawn by delay_spectrum_gibbs (every entry
\* of every element of the list it builds) is strictly positive, for every
\* input data shape including a single time column and for signal draws
\* with zero variance across the ensemble in some delay bin.
C3_DrawsStrictlyPositive ==
    \A k \in DOMAIN gb_spec : \A i \in DOMAIN gb_spec[k] : gb_spec[k][i].n > 0

\* The k-th iteration (1-based) of a run of the sampler drew its signal given
\* the most recent spectrum (initial_S in the first iteration) and its
\* spectrum given the signal of that same iteration.
GibbsIterationInOrder(k) ==
    /\ gb_given[2 * k - 1] = (IF k = 1 THEN gb_initial_S ELSE gb_spec[k - 1])
    /\ \E chi2 \in [1..gb_N -> Chi2Values] :
          gb_spec[k] = draw_ps_sample(gb_given[2 * k], chi2)

\* C5: delay_spectrum_gibbs performs exactly niter iterations regardless of
\* the data, each one signal draw given the most recent spectrum followed by
\* one spectrum draw given that signal, and returns exactly niter spectrum
\* draws in iteration order; it always ends by returning.
C5_FixedIterationCount ==
    /\ gb_pc \in {"returned", "raised"} =>
          /\ gb_pc = "returned"
          /\ gb_ii = gb_niter
          /\ Len(gb_spec) = gb_niter
          /\ Len(gb_given) = 2 * gb_niter
    /\ \A k \in DOMAIN gb_spec : GibbsIterationInOrder(k)
\* C9: in stokes_I a unique-baseline group contributes to the output only if
\* all four polarisation combinations are present among its products: every
\* group lacking one of the four combinations is skipped and its Stokes I
\* visibility and weight rows stay zero; every product whose feed pair maps
\* to -1 in the feed map is skipped without error and adds nothing to them.
C9_IncompleteGroupsStayZero ==
    st_pc = "done" =>
        /\ \A ui \in DOMAIN st_vis_I :
              ~(AllFourCombinations \subseteq Combinations(st_tel, ui))
                  => IsZeroSlab(st_vis_I[ui]) /\ IsZeroSlab(st_vis_weight[ui])
        /\ \A ui \in DOMAIN st_vis_I :
              st_vis_weight[ui][1][1] =
                  SumSeq([ii \in DOMAIN st_weight |->
                      IF /\ Uinv(st_tel)[ii] = ui
                         /\ ProductIsSummed(st_tel, ii)
                         /\ st_tel.uniquepairs[ii] \notin st_tel.masked
                      THEN st_weight[ii][1][1] ELSE 0])
\* C1: DelayFilter.process called with update_weight set to true fails
\* immediately with an explicit not-implemented error, before any
\* redistribution of the dataset and before any visibility is modified.
C1_UpdateWeightNotImplemented ==
    df_update_weight =>
        \A w \in DOMAIN df_wpc :
            /\ df_wpc[w] \in {"start", "raised"}
            /\ df_wpc[w] = "raised" => df_exc[w] = "NotImplementedError"
            /\ df_ncoll[w] = 0
            /\ df_dist = "freq"
            /\ df_vis = df_vis0

\* ---- C2 ----
\* During a run of DelaySpectrumEstimator.process, every baseline whose
\* Stokes I data is zero at every channel and time has not been handed to
\* the Gibbs sampler, and its spectrum row holds the zero it was initialised
\* with, whatever the other baselines hold and however the workers interleave.
C2_ZeroBaselineSkipped ==
    es_pc = "running" =>
        \A b \in DOMAIN es_vis_I :
            (\A c \in DOMAIN es_vis_I[b] : \A t \in DOMAIN es_vis_I[b][c] :
                es_vis_I[b][c][t] = 0)
            => /\ b \notin es_sampled
               /\ \A k \in DOMAIN es_spectrum[b] : es_spectrum[b][k].n = 0

\* A run that every worker has finished, with an all-zero baseline next to a
\* baseline that was sampled and whose row was filled.
C2_Witness ==
    /\ es_pc = "running"
    /\ \A w \in Workers : es_wpc[w] = "done"
    /\ \E b \in DOMAIN es_vis_I :
          /\ \A c \in DOMAIN es_vis_I[b] : \A t \in DOMAIN es_vis_I[b][c] :
                es_vis_I[b][c][t] = 0
          /\ b \notin es_sampled
    /\ \E b \in es_sampled : \E k \in DOMAIN es_spectrum[b] : es_spectrum[b][k].n # 0

\* ---- C4 ----
\* For every nsamp >= 1 the stored spectrum is the median of the later half
\* of the draws only: no draw with (0-based) index below
\* nsamp - floor(nsamp / 2) is among the draws averaged.
C4_OnlyLaterHalfAveraged ==
    es_last_run # <<>> =>
        \A k \in es_last_run[1].kept :
            k >= es_cfg.nsamp - es_cfg.nsamp \div 2

\* ---- C10 ----
\* In every invocation of process, each of freq_zero, freq_spacing and nfreq
\* that the configuration leaves unset has the value inferred from the
\* dataset of that invocation.
C10_InferredFromCurrentDataset ==
    es_pc = "running" =>
        /\ es_cfg.freq_zero = Unset => self_freq_zero = <<es_freq[1]>>
        /\ es_cfg.freq_spacing = Unset => self_freq_spacing = <<MinGap(es_freq)>>
        /\ es_cfg.nfreq = Unset =>
              self_nfreq = <<InferredNfreq(es_channel_ind, es_cfg.skip_nyquist)>>


\* ---- C11 ----
\* The integer nearest to the quotient n / d of two naturals, d > 0.
NearestInteger(n, d) == (2 * n + d) \div (2 * d)

\* The channel index of every channel centre is the integer nearest to
\* |centre - freq_zero| / freq_spacing, also when the quotient lies just
\* below an integer.
C11_ChannelIndexIsNearest ==
    es_pc = "running" =>
        \A i \in DOMAIN es_freq :
            es_channel_ind[i] =
                NearestInteger(Abs(es_freq[i] - self_freq_zero[1]),
                               self_freq_spacing[1])


\* ---- C12 ----
\* The highest channel index of the current dataset.
HighestChannelInd ==
    CHOOSE m \in Range(es_channel_ind) : \A k \in Range(es_channel_ind) : k <= m

\* As stated: an invocation that finds nfreq unset infers it as the highest
\* populated channel index + 1 (+ 1 with skip_nyquist), and every channel
\* index handed to the sampler lies in 0..ndelay/2.
C12_InferredFromHighestChannel ==
    (es_pc = "running" /\ es_calls = 1 /\ es_cfg.nfreq = Unset) =>
        /\ self_nfreq = <<HighestChannelInd + 1
                          + (IF es_cfg.skip_nyquist THEN 1 ELSE 0)>>
        /\ \A i \in DOMAIN es_channel_ind :
              es_channel_ind[i] \in 0..(es_ndelay \div 2)

\* An invocation that finds nfreq unset infers it as the index of the LAST
\* channel of the frequency axis + 1 (+ 1 with skip_nyquist), with
\* ndelay = 2 (nfreq - 1); the channel indices lie in 0..ndelay/2 whenever
\* no channel has an index above that of the last channel.
C12_InferredFromLastChannel ==
    (es_pc = "running" /\ es_calls = 1 /\ es_cfg.nfreq = Unset) =>
        /\ self_nfreq = <<es_channel_ind[Len(es_channel_ind)] + 1
                          + (IF es_cfg.skip_nyquist THEN 1 ELSE 0)>>
        /\ es_ndelay = 2 * (self_nfreq[1] - 1)
        /\ (HighestChannelInd = es_channel_ind[Len(es_channel_ind)])
              => \A i \in DOMAIN es_channel_ind :
                    es_channel_ind[i] \in 0..(es_ndelay \div 2)

\* A first invocation with nfreq unset on a descending frequency axis, with
\* the Nyquist adjustment, whose sampler has been run for a baseline.
C12_Witness ==
    /\ es_pc = "running" /\ es_calls = 1 /\ es_cfg.nfreq = Unset
    /\ es_cfg.skip_nyquist
    /\ es_freq[1] > es_freq[Len(es_freq)]
    /\ es_channel_ind[Len(es_channel_ind)] > 0
    /\ es_sampled # {}


\* ---- C13 ----
\* The products that belong to unique baseline ui, are not skipped (their
\* baseline has at least four products, their feed pair is in the feed map)
\* and whose two feeds are of the same polarisation class.
SamePolProducts(ui) ==
    {ii \in DOMAIN st_tel.baselines :
        /\ st_tel.baselines[ii] = Ubase(st_tel)[ui]
        /\ Cardinality({k \in DOMAIN st_tel.baselines :
                            st_tel.baselines[k] = st_tel.baselines[ii]}) >= 4
        /\ st_tel.uniquepairs[ii] \notin st_tel.masked
        /\ st_tel.beamclass[st_tel.uniquepairs[ii][1]]
              = st_tel.beamclass[st_tel.uniquepairs[ii][2]]}

\* The sum of the single sample of the slabs data[ii], ii in S.
RECURSIVE SumOfProducts(_, _)
SumOfProducts(data, S) ==
    IF S = {} THEN 0
    ELSE LET ii == CHOOSE k \in S : TRUE
         IN  data[ii][1][1] + SumOfProducts(data, S \ {ii})

\* When stokes_I returns, the Stokes I visibility and weight of every unique
\* baseline are the sums over exactly its non-skipped same-polarisation
\* products: cross-polarisation products and the products of other baselines
\* add nothing.
C13_SumOfSamePolProducts ==
    st_pc = "done" =>
        \A ui \in DOMAIN st_vis_I :
            /\ st_vis_I[ui][1][1] = SumOfProducts(st_vis, SamePolProducts(ui))
            /\ st_vis_weight[ui][1][1] = SumOfProducts(st_weight, SamePolProducts(ui))

\* stokes_I has returned for a telescope with two baselines, one of which
\* has two same-polarisation products summed and a cross-polarisation
\* product left out.
C13_Witness ==
    /\ st_pc = "done"
    /\ Len(st_vis_I) >= 2
    /\ \E ui \in DOMAIN st_vis_I :
          /\ Cardinality(SamePolProducts(ui)) >= 2
          /\ \E ii \in DOMAIN st_tel.baselines :
                /\ st_tel.baselines[ii] = Ubase(st_tel)[ui]
                /\ ii \notin SamePolProducts(ui)


\* ---- C14 ----
\* In the interleaved weight vector, a selected channel at the zero
\* frequency (index 0) or at the Nyquist frequency (index N/2) has the full
\* channel weight as real weight and exactly zero imaginary weight, and a
\* channel with weight zero has real and imaginary weight zero.
C14_RealChannelsAndFlags ==
    nw_pc = "done" =>
        \A k \in DOMAIN nw_fsel :
            /\ (nw_fsel[k] = 0 \/ 2 * nw_fsel[k] = nw_N) =>
                  /\ nw_Ni_r[2 * k - 1] = [num |-> nw_Ni[k], root2 |-> FALSE]
                  /\ nw_Ni_r[2 * k].num = 0
            /\ nw_Ni[k] = 0 =>
                  /\ nw_Ni_r[2 * k - 1].num = 0
                  /\ nw_Ni_r[2 * k].num = 0

\* The weights have been built for a selection that holds the Nyquist
\* channel with a non-zero weight, a flagged channel and an ordinary
\* channel with a non-zero weight.
C14_Witness ==
    /\ nw_pc = "done"
    /\ \E k \in DOMAIN nw_fsel : 2 * nw_fsel[k] = nw_N /\ nw_Ni[k] > 0
    /\ \E k \in DOMAIN nw_fsel : nw_Ni[k] = 0
    /\ \E k \in DOMAIN nw_fsel :
          /\ nw_fsel[k] # 0 /\ 2 * nw_fsel[k] # nw_N /\ nw_Ni[k] > 0
          /\ nw_Ni_r[2 * k].root2


\* ---- C15 ----
\* The flat spectrum created at delay.py:144.
FlatInitialS == [k \in 1..es_ndelay |-> [n |-> 10, d |-> 1]]

C16_ReadAndWrittenRowAgree ==
    es_pc = "running" =>
        /\ \A w \in Workers : es_exc[w] # "IndexError"
        /\ es_last_run # <<>> => es_last_run[1].row = es_last_run[1].read


\* ---- C17 ----
\* Some worker waits in a redistribution that another worker, having
\* returned or raised, will never enter.
FilterBlocked ==
    \E w, v \in Workers :
        df_wpc[w] = "redistribute" /\ df_wpc[v] \in {"done", "raised"}
EstimatorBlocked ==
    \E w, v \in Workers :
        es_wpc[w] = "redistribute" /\ es_wpc[v] \in {"done", "raised"}

\* As stated: in both tasks a worker redistributes before and after its
\* loop, so a worker that has returned has entered a redistribution more
\* than it had when it reached the loop, and no worker is left blocked.
C17_RedistributionBeforeAndAfterLoop ==
    /\ df_dist # None =>
          /\ \A w \in Workers : df_wpc[w] = "done" => df_ncoll[w] > 1
          /\ ~FilterBlocked
    /\ es_pc = "running" =>
          /\ \A w \in Workers :
                es_wpc[w] = "done" => es_ncoll[w] > Len(PreLoopRedistributions)
          /\ ~EstimatorBlocked

\* In both tasks every redistribution precedes the loop: a worker that is
\* in its loop, has left it by an exception or has returned has entered
\* the same redistributions as every other worker (one in DelayFilter, the
\* four of PreLoopRedistributions in DelaySpectrumEstimator), none inside
\* or after the loop, whatever its local data is; no worker is left blocked
\* at a redistribution.
C17_AllRedistributionsBeforeLoop ==
    /\ df_dist # None =>
          /\ \A w \in Workers :
                (df_wpc[w] \in {"loop", "done"}
                    \/ (df_wpc[w] = "raised" /\ df_exc[w] # UpdateWeightRaises))
                => df_ncoll[w] = 1
          /\ \A w \in Workers :
                (df_wpc[w] = "raised" /\ df_exc[w] = UpdateWeightRaises)
                => \A v \in Workers : df_ncoll[v] = 0
          /\ ~FilterBlocked
    /\ es_pc = "running" =>
          /\ \A w \in Workers : es_ncoll[w] = Len(PreLoopRedistributions)
          /\ ~EstimatorBlocked
    /\ es_pc = "setup" => ~EstimatorBlocked

\* A run of the estimator that every worker has finished, where a worker
\* skipped an all-zero baseline and a worker stored a spectrum.
C17_Witness ==
    /\ es_pc = "running"
    /\ \A w \in Workers : es_wpc[w] = "done"
    /\ \E b \in DOMAIN es_vis_I : b \notin es_sampled
    /\ es_last_run # <<>>


\* ---- C18 ----
\* In the array returned for a time stream of n samples, every m in
\* 1..mmax, mmax = n/2, has Fourier mode m as its positive-m entry and the
\* conjugate of Fourier mode -m as its negative-m entry.
C18_EveryModePacked ==
    mm_pc = "done" =>
        LET n == Cardinality(DOMAIN mm_ts)
        IN  \A m \in 1..(n \div 2) :
                /\ mm_marray[m].pos.c = mm_mmodes[m].c
                /\ mm_marray[m].neg.c = ZConj(mm_mmodes[n - m].c)

=============================================================================
